---------------------------- MODULE Spec2Model ----------------------------
(***************************************************************************)
(* Model of shifted_beta_geometric/sbg.py: the shifted-beta-geometric      *)
(* (sBG) retention model.                                                  *)
(*                                                                         *)
(* Numbers are exact rationals <<num, den>> with den > 0 in lowest terms   *)
(* (Python floats without rounding).  math.log is kept symbolic: a value   *)
(* c * log(x) is the term <<c, x>>, and a log-likelihood is the linear     *)
(* form [const, terms] of a constant and the terms in the order the code   *)
(* adds them; log raises ValueError for x <= 0 as math.log does.           *)
(* Python lists are sequences; Python index k is TLA+ index k + 1.         *)
(* Every function returns an outcome: what it returned or the exception    *)
(* it raised, together with the list argument as the call left it.         *)
(***************************************************************************)
EXTENDS Integers, Sequences, FiniteSets, TLC

VARIABLES alpha, beta, data, dataset, ret

vars == <<alpha, beta, data, dataset, ret>>

---------------------------------------------------------------------------
(* Bounds of the model *)

\* longest observation series / cohort and largest horizon
MaxLen == 3

\* most cohorts in a multi-cohort dataset
MaxCohorts == 2

\* shape parameters range over k/2 for k in -1..MaxNum
MaxNum == 3

---------------------------------------------------------------------------
(* Program constants *)

\* the value returned for alpha <= 0 or beta <= 0
Sentinel == -1000

\* initial guess of maximize, both coordinates
X0Single == 100

\* initial guess of maximize_multi_cohort, both coordinates
X0Multi == 1

---------------------------------------------------------------------------
(* Exact rational arithmetic *)

Abs(n) == IF n < 0 THEN -n ELSE n

RECURSIVE GCD(_, _)
GCD(a, b) == IF b = 0 THEN a ELSE GCD(b, a % b)

\* n/d in lowest terms with a positive denominator (d # 0)
Rat(n, d) ==
    LET g == GCD(Abs(n), Abs(d))
        s == IF d < 0 THEN -1 ELSE 1
    IN  <<(s * n) \div g, (s * d) \div g>>

Num(k) == <<k, 1>>

RAdd(a, b) ==
    LET g == GCD(a[2], b[2])
    IN  Rat(a[1] * (b[2] \div g) + b[1] * (a[2] \div g), (a[2] \div g) * b[2])

RNeg(a) == <<-a[1], a[2]>>

RSub(a, b) == RAdd(a, RNeg(b))

RMul(a, b) ==
    LET g1 == GCD(Abs(a[1]), b[2])
        g2 == GCD(Abs(b[1]), a[2])
    IN  Rat((a[1] \div g1) * (b[1] \div g2), (a[2] \div g2) * (b[2] \div g1))

\* a / b for b # 0
RDiv(a, b) == RMul(a, Rat(b[2], b[1]))

RIsZero(a) == a[1] = 0
RPos(a) == a[1] > 0
RLe(a, b) == a[1] * b[2] <= b[1] * a[2]
RLt(a, b) == a[1] * b[2] < b[1] * a[2]

---------------------------------------------------------------------------
(* Outcomes of a call *)

\* the call returned v; a is its list argument after the call
Ret(v, a) == [kind |-> "return", val |-> v, exc |-> "", arg |-> a, nmin |-> 0]

\* the call raised exception e with message m
Raise(e, m, a) == [kind |-> "raise", val |-> m, exc |-> e, arg |-> a, nmin |-> 0]

\* an exception raised by a callee passes through the caller
Propagate(o, a) == [o EXCEPT !.arg = a]

\* c * log(x)
LogTerm(c, x) == <<c, x>>

\* the number c
Const(c) == [const |-> c, terms |-> <<>>]

\* the sum of the terms ts
LogSum(ts) == [const |-> Num(0), terms |-> ts]

\* survivors=None and survivors=<list>
None == [some |-> FALSE, v |-> <<>>]
Some(x) == [some |-> TRUE, v |-> x]

---------------------------------------------------------------------------
(* The functions of sbg.py *)

RECURSIVE gp_loop(_, _, _, _, _)
gp_loop(a, b, x, t, p) ==
    IF t >= x THEN Ret(p, <<>>)
    ELSE IF RIsZero(RAdd(RAdd(a, b), Num(t)))
         THEN Raise("ZeroDivisionError", "", <<>>)
         ELSE gp_loop(a, b, x, t + 1,
                      Append(p, RMul(RDiv(RSub(RAdd(b, Num(t)), Num(1)),
                                          RAdd(RAdd(a, b), Num(t))),
                                     p[t])))

\* p = [alpha / (alpha + beta)]; for t in range(1, x): p.append(...)
generate_probabilities(a, b, x) ==
    IF RIsZero(RAdd(a, b))
    THEN Raise("ZeroDivisionError", "", <<>>)
    ELSE gp_loop(a, b, x, 1, <<RDiv(a, RAdd(a, b))>>)

\* the recursive definition; a negative t never reaches t == 0
RECURSIVE probability(_, _, _)
probability(a, b, t) ==
    IF t < 0 THEN Raise("RecursionError", "", <<>>)
    ELSE IF t = 0
    THEN IF RIsZero(RAdd(a, b))
         THEN Raise("ZeroDivisionError", "", <<>>)
         ELSE Ret(RDiv(a, RAdd(a, b)), <<>>)
    ELSE IF RIsZero(RAdd(RAdd(a, b), Num(t)))
         THEN Raise("ZeroDivisionError", "", <<>>)
         ELSE LET r == probability(a, b, t - 1)
              IN  IF r.kind = "raise" THEN r
                  ELSE Ret(RMul(RDiv(RSub(RAdd(b, Num(t)), Num(1)),
                                     RAdd(RAdd(a, b), Num(t))),
                                r.val), <<>>)

RECURSIVE sv_loop(_, _, _, _)
sv_loop(probabilities, t, x, s) ==
    IF x > t THEN Ret(s, probabilities)
    ELSE IF x + 1 > Len(probabilities)
         THEN Raise("IndexError", "", probabilities)
         ELSE sv_loop(probabilities, t, x + 1, RSub(s, probabilities[x + 1]))

\* survivor with the loop stopping one index early: range(1, t)
survivor_short(probabilities, t) ==
    IF Len(probabilities) = 0
    THEN Raise("IndexError", "", probabilities)
    ELSE sv_loop(probabilities, t - 1, 1, RSub(Num(1), probabilities[1]))

\* s = 1 - probabilities[0]; for x in range(1, t + 1): s = s - probabilities[x]
survivor(probabilities, t) ==
    IF Len(probabilities) = 0
    THEN Raise("IndexError", "", probabilities)
    ELSE sv_loop(probabilities, t, 1, RSub(Num(1), probabilities[1]))

RECURSIVE sr_loop(_, _, _)
sr_loop(d, i, s) ==
    IF i > Len(d) THEN Ret(s, d)
    ELSE sr_loop(d, i + 1,
                 Append(s, IF i = 1 THEN RSub(Num(1), d[1])
                                    ELSE RSub(d[i - 1], d[i])))

\* survivor_rates writing the rates over data: data[i] = s[i]
survivor_rates_inplace(d) ==
    LET o == sr_loop(d, 1, <<>>) IN Ret(o.val, o.val)

\* s[0] = 1 - data[0], s[i] = data[i-1] - data[i]; data is only read
survivor_rates(d) == sr_loop(d, 1, <<>>)

RECURSIVE ll_terms(_, _, _, _)
ll_terms(survivors, probabilities, t, acc) ==
    IF t > Len(survivors) THEN Ret(acc, <<>>)
    ELSE IF t > Len(probabilities) THEN Raise("IndexError", "", <<>>)
    ELSE IF ~RPos(probabilities[t]) THEN Raise("ValueError", "", <<>>)
    ELSE ll_terms(survivors, probabilities, t + 1,
                  Append(acc, LogTerm(survivors[t], probabilities[t])))

\* log_likelihood with the tail term at survivor(p, len(data) - 2)
log_likelihood_tail_early(a, b, d, survivors) ==
    IF ~RPos(a) \/ ~RPos(b) THEN Ret(Const(Num(Sentinel)), d)
    ELSE
    LET sr == IF survivors.some THEN Ret(survivors.v, d) ELSE survivor_rates(d)
        d1 == sr.arg
        gp == generate_probabilities(a, b, Len(d1))
        fs == survivor(gp.val, Len(d1) - 2)
        ts == ll_terms(sr.val, fs.arg, 1, <<>>)
    IN  IF gp.kind = "raise" THEN Propagate(gp, d1)
        ELSE IF fs.kind = "raise" THEN Propagate(fs, d1)
        ELSE IF ts.kind = "raise" THEN Propagate(ts, d1)
        ELSE IF Len(d1) = 0 THEN Raise("IndexError", "", d1)
        ELSE IF ~RPos(fs.val) THEN Raise("ValueError", "", d1)
        ELSE Ret(LogSum(Append(ts.val, LogTerm(d1[Len(d1)], fs.val))), d1)

\* log_likelihood with the guard alpha < 0 or beta < 0
log_likelihood_strict_guard(a, b, d, survivors) ==
    IF a[1] < 0 \/ b[1] < 0 THEN Ret(Const(Num(Sentinel)), d)
    ELSE
    LET sr == IF survivors.some THEN Ret(survivors.v, d) ELSE survivor_rates(d)
        d1 == sr.arg
        gp == generate_probabilities(a, b, Len(d1))
        fs == survivor(gp.val, Len(d1) - 1)
        ts == ll_terms(sr.val, fs.arg, 1, <<>>)
    IN  IF gp.kind = "raise" THEN Propagate(gp, d1)
        ELSE IF fs.kind = "raise" THEN Propagate(fs, d1)
        ELSE IF ts.kind = "raise" THEN Propagate(ts, d1)
        ELSE IF Len(d1) = 0 THEN Raise("IndexError", "", d1)
        ELSE IF ~RPos(fs.val) THEN Raise("ValueError", "", d1)
        ELSE Ret(LogSum(Append(ts.val, LogTerm(d1[Len(d1)], fs.val))), d1)

\* the guard, then sum(s * log(p[t])) + data[-1] * log(survivor(p, len(data) - 1))
log_likelihood(a, b, d, survivors) ==
    IF ~RPos(a) \/ ~RPos(b) THEN Ret(Const(Num(Sentinel)), d)
    ELSE
    LET sr == IF survivors.some THEN Ret(survivors.v, d) ELSE survivor_rates(d)
        d1 == sr.arg
        gp == generate_probabilities(a, b, Len(d1))
        fs == survivor(gp.val, Len(d1) - 1)
        ts == ll_terms(sr.val, fs.arg, 1, <<>>)
    IN  IF gp.kind = "raise" THEN Propagate(gp, d1)
        ELSE IF fs.kind = "raise" THEN Propagate(fs, d1)
        ELSE IF ts.kind = "raise" THEN Propagate(ts, d1)
        ELSE IF Len(d1) = 0 THEN Raise("IndexError", "", d1)
        ELSE IF ~RPos(fs.val) THEN Raise("ValueError", "", d1)
        ELSE Ret(LogSum(Append(ts.val, LogTerm(d1[Len(d1)], fs.val))), d1)

RECURSIVE mc_terms(_, _, _, _)
mc_terms(cohort, probabilities, j, acc) ==
    IF j > Len(cohort) - 1 THEN Ret(acc, <<>>)
    ELSE IF j > Len(probabilities) THEN Raise("IndexError", "", <<>>)
    ELSE IF ~RPos(probabilities[j]) THEN Raise("ValueError", "", <<>>)
    ELSE mc_terms(cohort, probabilities, j + 1,
                  Append(acc, LogTerm(RSub(cohort[j], cohort[j + 1]),
                                      probabilities[j])))

RECURSIVE mc_loop(_, _, _, _)
mc_loop(d, probabilities, i, total) ==
    IF i > Len(d) THEN Ret(LogSum(total), d)
    ELSE
    LET cohort == d[i]
        ts == mc_terms(cohort, probabilities, 1, <<>>)
        \* cohorts - i - 1 with the 0-based i of enumerate
        sv == survivor(probabilities, Len(d) - (i - 1) - 1)
    IN  IF ts.kind = "raise" THEN Propagate(ts, d)
        ELSE IF Len(cohort) = 0 THEN Raise("IndexError", "", d)
        ELSE IF sv.kind = "raise" THEN Propagate(sv, d)
        ELSE IF ~RPos(sv.val) THEN Raise("ValueError", "", d)
        ELSE mc_loop(d, sv.arg, i + 1,
                     total \o ts.val \o <<LogTerm(cohort[Len(cohort)], sv.val)>>)

\* the guard, probabilities sized by len(data[0]), then the loop over cohorts
log_likelihood_multi_cohort(a, b, d) ==
    IF ~RPos(a) \/ ~RPos(b) THEN Ret(Const(Num(Sentinel)), d)
    ELSE IF Len(d) = 0 THEN Raise("IndexError", "", d)
    ELSE LET gp == generate_probabilities(a, b, Len(d[1]))
         IN  IF gp.kind = "raise" THEN Propagate(gp, d)
             ELSE mc_loop(d, gp.val, 1, <<>>)

\* predicted_retention without t in the numerator: beta / (alpha + beta + t)
predicted_retention_no_t(a, b, t) ==
    IF RIsZero(RAdd(RAdd(a, b), Num(t)))
    THEN Raise("ZeroDivisionError", "", <<>>)
    ELSE Ret(RDiv(b, RAdd(RAdd(a, b), Num(t))), <<>>)

\* (beta + t) / (alpha + beta + t)
predicted_retention(a, b, t) ==
    IF RIsZero(RAdd(RAdd(a, b), Num(t)))
    THEN Raise("ZeroDivisionError", "", <<>>)
    ELSE Ret(RDiv(RAdd(b, Num(t)), RAdd(RAdd(a, b), Num(t))), <<>>)

RECURSIVE ps_loop(_, _, _, _, _)
ps_loop(a, b, x, t, s) ==
    IF t >= x THEN Ret(s, <<>>)
    ELSE LET r == predicted_retention(a, b, t)
         IN  IF r.kind = "raise" THEN r
             ELSE ps_loop(a, b, x, t + 1, Append(s, RMul(r.val, s[t])))

\* s = [predicted_retention(alpha, beta, 0)]; s.append(retention(t) * s[t-1])
predicted_survival(a, b, x) ==
    LET r == predicted_retention(a, b, 0)
    IN  IF r.kind = "raise" THEN r ELSE ps_loop(a, b, x, 1, <<r.val>>)

\* predicted_retention(alpha, beta, n) * hyp2f1(1, beta+n+1, alpha+beta+n+1, 1/(1+d));
\* hyp2f1 is kept symbolic, as its four arguments
derl(a, b, d, n) ==
    LET r == predicted_retention(a, b, n)
    IN  IF r.kind = "raise" THEN r
        ELSE IF RIsZero(RAdd(Num(1), d))
        THEN Raise("ZeroDivisionError", "", <<>>)
        ELSE Ret([r |-> r.val,
                  hyp2f1 |-> <<Num(1),
                               RAdd(RAdd(b, Num(n)), Num(1)),
                               RAdd(RAdd(RAdd(a, b), Num(n)), Num(1)),
                               RDiv(Num(1), RAdd(Num(1), d))>>], <<>>)

\* scipy.optimize.minimize(func, x0, method='nelder-mead'): the simplex search
\* first evaluates func at x0, whose outcome is f0; an exception of func ends
\* the search, otherwise it returns a result, which is the optimizer's choice
minimize(f0, choice) ==
    IF f0.kind = "raise" THEN [f0 EXCEPT !.nmin = 1]
    ELSE [Ret(choice, f0.arg) EXCEPT !.nmin = 1]

\* survivors = survivor_rates(data); minimize(-log_likelihood(x, data, survivors), [100, 100])
maximize(d, choice) ==
    LET sr == survivor_rates(d)
    IN  minimize(log_likelihood(Num(X0Single), Num(X0Single), sr.arg, Some(sr.val)),
                 choice)

\* minimize(-log_likelihood_multi_cohort(x, data), [1, 1])
maximize_multi_cohort(d, choice) ==
    minimize(log_likelihood_multi_cohort(Num(X0Multi), Num(X0Multi), d), choice)

\* fit without the check of res.status
fit_unchecked(d, choice) ==
    LET res == maximize(d, choice)
    IN  IF res.kind = "raise" THEN res ELSE [res EXCEPT !.val = res.val.x]

\* res = maximize(data); raise Exception(res.message) unless res.status == 0
fit(d, choice) ==
    LET res == maximize(d, choice)
    IN  IF res.kind = "raise" THEN res
        ELSE IF res.val.status # 0
        THEN [Raise("Exception", res.val.message, res.arg) EXCEPT !.nmin = res.nmin]
        ELSE [res EXCEPT !.val = res.val.x]

\* res = maximize_multi_cohort(data); the same check of res.status
fit_multi_cohort(d, choice) ==
    LET res == maximize_multi_cohort(d, choice)
    IN  IF res.kind = "raise" THEN res
        ELSE IF res.val.status # 0
        THEN [Raise("Exception", res.val.message, res.arg) EXCEPT !.nmin = res.nmin]
        ELSE [res EXCEPT !.val = res.val.x]

---------------------------------------------------------------------------
(* Inputs *)

\* alpha and beta, valid and invalid
Params == {Rat(k, 2) : k \in -1..MaxNum}

\* fractions of a cohort still active
ObsValues == {Rat(3, 4), Rat(1, 2)}

\* observation series, empty and non-monotonic ones included
Series == UNION {[1..n -> ObsValues] : n \in 0..MaxLen}

\* a cohort observed for L periods: the first L counts of one retention curve
Cohort(L) == [j \in 1..L |-> Num(MaxLen + 2 - j)]

\* multi-cohort datasets in any order of lengths, empty cohorts included
Datasets == UNION {[1..c -> {Cohort(L) : L \in 0..MaxLen}] : c \in 0..MaxCohorts}

\* discount rates
Discounts == {Rat(1, 10), Rat(1, 2)}

\* the message of each status of the Nelder-Mead search
Message(status) ==
    CASE status = 0 -> "Optimization terminated successfully."
      [] status = 1 -> "Maximum number of function evaluations has been exceeded."
      [] OTHER -> "Maximum number of iterations has been exceeded."

\* what the optimizer may return
OptResults ==
    {[status |-> st, x |-> x, message |-> Message(st)] :
        st \in 0..2, x \in {<<Rat(1, 2), Rat(3, 2)>>, <<Num(1), Num(1)>>}}

NoRes == [status |-> -1, x |-> <<>>, message |-> ""]

NoIn == [n |-> 0, t |-> 0, d |-> Num(0), res |-> NoRes, p |-> <<>>]

Idle == [op |-> "idle", in |-> NoIn, out |-> Ret(<<>>, <<>>)]

---------------------------------------------------------------------------
(* The state machine: a caller holding alpha, beta, a series and a dataset *)
(* calls the functions one after the other                                 *)

Init ==
    /\ alpha \in Params
    /\ beta \in Params
    /\ \/ data \in Series /\ dataset = <<>>
       \/ data = <<>> /\ dataset \in Datasets
    /\ ret = Idle

Call_generate_probabilities ==
    /\ ret.op = "idle"
    /\ \E n \in 0..MaxLen :
         ret' = [op |-> "generate_probabilities", in |-> [NoIn EXCEPT !.n = n],
                 out |-> generate_probabilities(alpha, beta, n)]
    /\ UNCHANGED <<alpha, beta, data, dataset>>

Call_probability ==
    /\ ret.op = "idle"
    /\ \E t \in -1..MaxLen :
         ret' = [op |-> "probability", in |-> [NoIn EXCEPT !.t = t],
                 out |-> probability(alpha, beta, t)]
    /\ UNCHANGED <<alpha, beta, data, dataset>>

\* survivor on the sequence generate_probabilities returned for horizon n
Call_survivor ==
    /\ ret.op = "idle"
    /\ \E n \in 0..MaxLen, t \in -1..MaxLen :
         LET gp == generate_probabilities(alpha, beta, n)
         IN  /\ gp.kind = "return"
             /\ ret' = [op |-> "survivor",
                        in |-> [NoIn EXCEPT !.n = n, !.t = t, !.p = gp.val],
                        out |-> survivor(gp.val, t)]
    /\ UNCHANGED <<alpha, beta, data, dataset>>

Call_survivor_rates ==
    /\ ret.op = "idle"
    /\ LET o == survivor_rates(data)
       IN  /\ ret' = [op |-> "survivor_rates", in |-> NoIn, out |-> o]
           /\ data' = o.arg
    /\ UNCHANGED <<alpha, beta, dataset>>

Call_log_likelihood ==
    /\ ret.op = "idle"
    /\ LET o == log_likelihood(alpha, beta, data, None)
       IN  /\ ret' = [op |-> "log_likelihood", in |-> NoIn, out |-> o]
           /\ data' = o.arg
    /\ UNCHANGED <<alpha, beta, dataset>>

Call_log_likelihood_multi_cohort ==
    /\ ret.op = "idle"
    /\ LET o == log_likelihood_multi_cohort(alpha, beta, dataset)
       IN  /\ ret' = [op |-> "log_likelihood_multi_cohort", in |-> NoIn, out |-> o]
           /\ dataset' = o.arg
    /\ UNCHANGED <<alpha, beta, data>>

Call_maximize ==
    /\ ret.op = "idle"
    /\ \E res \in OptResults :
         LET o == maximize(data, res)
         IN  /\ ret' = [op |-> "maximize", in |-> [NoIn EXCEPT !.res = res], out |-> o]
             /\ data' = o.arg
    /\ UNCHANGED <<alpha, beta, dataset>>

Call_maximize_multi_cohort ==
    /\ ret.op = "idle"
    /\ \E res \in OptResults :
         LET o == maximize_multi_cohort(dataset, res)
         IN  /\ ret' = [op |-> "maximize_multi_cohort",
                        in |-> [NoIn EXCEPT !.res = res], out |-> o]
             /\ dataset' = o.arg
    /\ UNCHANGED <<alpha, beta, data>>

Call_fit ==
    /\ ret.op = "idle"
    /\ \E res \in OptResults :
         LET o == fit(data, res)
         IN  /\ ret' = [op |-> "fit", in |-> [NoIn EXCEPT !.res = res], out |-> o]
             /\ data' = o.arg
    /\ UNCHANGED <<alpha, beta, dataset>>

Call_fit_multi_cohort ==
    /\ ret.op = "idle"
    /\ \E res \in OptResults :
         LET o == fit_multi_cohort(dataset, res)
         IN  /\ ret' = [op |-> "fit_multi_cohort",
                        in |-> [NoIn EXCEPT !.res = res], out |-> o]
             /\ dataset' = o.arg
    /\ UNCHANGED <<alpha, beta, data>>

Call_predicted_retention ==
    /\ ret.op = "idle"
    /\ \E t \in 0..MaxLen :
         ret' = [op |-> "predicted_retention", in |-> [NoIn EXCEPT !.t = t],
                 out |-> predicted_retention(alpha, beta, t)]
    /\ UNCHANGED <<alpha, beta, data, dataset>>

Call_predicted_survival ==
    /\ ret.op = "idle"
    /\ \E n \in 0..MaxLen :
         ret' = [op |-> "predicted_survival", in |-> [NoIn EXCEPT !.n = n],
                 out |-> predicted_survival(alpha, beta, n)]
    /\ UNCHANGED <<alpha, beta, data, dataset>>

Call_derl ==
    /\ ret.op = "idle"
    /\ \E d \in Discounts, n \in 0..MaxLen :
         ret' = [op |-> "derl", in |-> [NoIn EXCEPT !.d = d, !.n = n],
                 out |-> derl(alpha, beta, d, n)]
    /\ UNCHANGED <<alpha, beta, data, dataset>>

\* the caller takes the result and goes on to its next call
Return ==
    /\ ret.op # "idle"
    /\ ret' = Idle
    /\ UNCHANGED <<alpha, beta, data, dataset>>

Next ==
    \/ Call_generate_probabilities
    \/ Call_probability
    \/ Call_survivor
    \/ Call_survivor_rates
    \/ Call_log_likelihood
    \/ Call_log_likelihood_multi_cohort
    \/ Call_maximize
    \/ Call_maximize_multi_cohort
    \/ Call_fit
    \/ Call_fit_multi_cohort
    \/ Call_predicted_retention
    \/ Call_predicted_survival
    \/ Call_derl
    \/ Return

Spec == Init /\ [][Next]_vars

---------------------------------------------------------------------------
(* The model's mathematics, as the specification states it *)

Valid == RPos(alpha) /\ RPos(beta)

\* P(T=0) = alpha/(alpha+beta), P(T=t) = ((beta+t-1)/(alpha+beta+t)) * P(T=t-1)
RECURSIVE PT(_, _, _)
PT(a, b, t) ==
    IF t = 0 THEN RDiv(a, RAdd(a, b))
    ELSE RMul(RDiv(RSub(RAdd(b, Num(t)), Num(1)), RAdd(RAdd(a, b), Num(t))),
              PT(a, b, t - 1))

\* sum_{k=0..t} p[k] over a Python-indexed sequence p
RECURSIVE SumTo(_, _)
SumTo(p, t) == IF t < 0 THEN Num(0) ELSE RAdd(SumTo(p, t - 1), p[t + 1])

\* S(t) = 1 - sum_{k=0..t} p[k], so that S(-1) = 1
S(p, t) == RSub(Num(1), SumTo(p, t))

\* r(t) = (beta+t)/(alpha+beta+t)
R(a, b, t) == RDiv(RAdd(b, Num(t)), RAdd(RAdd(a, b), Num(t)))

\* product_{k=0..t} r(k)
RECURSIVE ProdR(_, _, _)
ProdR(a, b, t) == IF t < 0 THEN Num(1) ELSE RMul(ProdR(a, b, t - 1), R(a, b, t))

\* rate[0] = 1 - obs[0], rate[t] = obs[t-1] - obs[t]
Rate(obs, t) == IF t = 0 THEN RSub(Num(1), obs[1]) ELSE RSub(obs[t], obs[t + 1])

\* sum_t rate[t]*log(P(T=t)) + obs[n-1]*log(S(tail)) for a series obs of length n
SingleCohortLL(a, b, obs, tail) ==
    LET n == Len(obs)
        p == [t \in 1..n |-> PT(a, b, t - 1)]
    IN  LogSum([t \in 1..n |-> LogTerm(Rate(obs, t - 1), p[t])]
               \o <<LogTerm(obs[n], S(p, tail))>>)

---------------------------------------------------------------------------
(* Claims *)

\* C1 as stated: for alpha, beta > 0 and a series of length n >= 1,
\* log_likelihood returns sum_t rate[t]*log(P(T=t)) + obs[n-1]*log(S(n-2)):
\* the survivor value of the tail term is the one at index n-2.
CE_C1 ==
    (ret.op = "log_likelihood" /\ Valid /\ Len(data) >= 1)
        => /\ ret.out.kind = "return"
           /\ ret.out.val = SingleCohortLL(alpha, beta, data, Len(data) - 2)

\* C1 amended: for alpha, beta > 0 and a series of length n >= 1,
\* log_likelihood returns sum_t rate[t]*log(P(T=t)) + obs[n-1]*log(S(n-1)):
\* the survivor value of the tail term is the one at index n-1.
Thm_C1 ==
    (ret.op = "log_likelihood" /\ Valid /\ Len(data) >= 1)
        => /\ ret.out.kind = "return"
           /\ ret.out.val = SingleCohortLL(alpha, beta, data, Len(data) - 1)

Wit_C1 ==
    /\ ret.op = "log_likelihood" /\ Valid /\ Len(data) >= 2
    /\ ret.out.kind = "return"
    /\ Len(ret.out.val.terms) = Len(data) + 1

\* C2: for alpha, beta > 0 and a dataset of cohorts with at least one
\* observation each, every index log_likelihood_multi_cohort reads in the
\* probability sequence (j in 0..L_i-2 and up to cohorts - i - 1 in the
\* survivor tail) lies inside the sequence: no read is out of range.
CE_C2 ==
    (/\ ret.op = "log_likelihood_multi_cohort" /\ Valid
     /\ Len(dataset) >= 1
     /\ \A i \in 1..Len(dataset) : Len(dataset[i]) >= 1)
        => ret.out.exc # "IndexError"

\* C3: for alpha <= 0 or beta <= 0 and any data, empty or malformed,
\* log_likelihood and log_likelihood_multi_cohort return -1000 and do not raise.
Thm_C3 ==
    (ret.op \in {"log_likelihood", "log_likelihood_multi_cohort"} /\ ~Valid)
        => /\ ret.out.kind = "return"
           /\ ret.out.val = Const(Num(-1000))

Wit_C3 ==
    /\ ret.op = "log_likelihood" /\ RIsZero(alpha) /\ RIsZero(beta)
    /\ data = <<>>
    /\ ret.out.kind = "return"

\* what the optimizer did in the fit whose result ret holds
Maximized ==
    IF ret.op = "fit" THEN maximize(data, ret.in.res)
    ELSE maximize_multi_cohort(dataset, ret.in.res)

CE_C5 ==
    (ret.op \in {"predicted_retention", "derl"} /\ ~Valid)
        => /\ ret.out.kind = "raise"
           /\ ret.out.exc = "InvalidParameterDomain"

\* C6: for alpha, beta > 0 and n >= 1, predicted_survival is the cumulative
\* product s(t) = r(t)*s(t-1), s(-1) = 1, r(t) = (beta+t)/(alpha+beta+t);
\* it is non-increasing and every value lies in (0, 1].
Thm_C6 ==
    (ret.op = "predicted_survival" /\ Valid /\ ret.in.n >= 1)
        => /\ ret.out.kind = "return"
           /\ Len(ret.out.val) = ret.in.n
           /\ \A t \in 1..ret.in.n :
                /\ ret.out.val[t] =
                     RMul(R(alpha, beta, t - 1),
                          IF t = 1 THEN Num(1) ELSE ret.out.val[t - 1])
                /\ t > 1 => RLe(ret.out.val[t], ret.out.val[t - 1])
                /\ RPos(ret.out.val[t])
                /\ RLe(ret.out.val[t], Num(1))

Wit_C6 ==
    /\ ret.op = "predicted_survival" /\ Valid /\ ret.in.n >= 3
    /\ ret.out.kind = "return"
    /\ RLt(ret.out.val[3], ret.out.val[2])

\* C7: for alpha, beta > 0 and n >= 0, generate_probabilities returns exactly
\* n entries (none when n = 0) with P(T=0) = alpha/(alpha+beta),
\* P(T=t) = ((beta+t-1)/(alpha+beta+t)) * P(T=t-1), each entry equal to
\* the recursive probability(alpha, beta, t).
CE_C7 ==
    (ret.op = "generate_probabilities" /\ Valid)
        => /\ ret.out.kind = "return"
           /\ Len(ret.out.val) = ret.in.n
           /\ \A t \in 1..ret.in.n :
                /\ ret.out.val[t] = PT(alpha, beta, t - 1)
                /\ ret.out.val[t] = probability(alpha, beta, t - 1).val

\* C8: for a non-empty probability sequence p and -1 <= t <= len(p)-1,
\* survivor(p, t) returns 1 - sum_{k=0..t} p[k], so survivor(p, -1) = 1,
\* survivor is non-increasing in t, and sum_t p[t] + survivor(p, n-1) = 1.
CE_C8 ==
    (/\ ret.op = "survivor" /\ Valid /\ Len(ret.in.p) >= 1
     /\ -1 <= ret.in.t /\ ret.in.t <= Len(ret.in.p) - 1)
        => /\ ret.out.kind = "return"
           /\ ret.out.val = S(ret.in.p, ret.in.t)
           /\ ret.in.t = -1 => ret.out.val = Num(1)
           /\ ret.in.t = Len(ret.in.p) - 1
                => RAdd(SumTo(ret.in.p, ret.in.t), ret.out.val) = Num(1)

\* C9: no call changes its arguments (the observation series, the dataset,
\* a passed-in probability sequence, alpha, beta): after any sequence of
\* calls the caller's objects are as they were, so that each call computes
\* from the same inputs as a call made in isolation.
Thm_C9 ==
    [][/\ alpha' = alpha /\ beta' = beta
       /\ data' = data /\ dataset' = dataset
       /\ ret'.op = "survivor" => ret'.out.arg = ret'.in.p]_vars

Wit_C9 ==
    /\ ret.op = "maximize" /\ Len(data) >= 2
    /\ ret.out.kind = "return" /\ ret.out.nmin = 1

\* C10: for alpha, beta > 0, n >= 1 and 0 <= t < n,
\* survivor(generate_probabilities(alpha, beta, n), t) equals
\* predicted_survival(alpha, beta, n)[t] = product_{k=0..t} (beta+k)/(alpha+beta+k),
\* and is strictly positive.
Thm_C10 ==
    (/\ ret.op = "survivor" /\ Valid /\ ret.in.n >= 1
     /\ 0 <= ret.in.t /\ ret.in.t < ret.in.n)
        => /\ ret.out.kind = "return"
           /\ ret.out.val = predicted_survival(alpha, beta, ret.in.n).val[ret.in.t + 1]
           /\ ret.out.val = ProdR(alpha, beta, ret.in.t)
           /\ RPos(ret.out.val)

Wit_C10 ==
    /\ ret.op = "survivor" /\ Valid /\ ret.in.n >= 3 /\ ret.in.t = 2
    /\ ret.out.kind = "return"
    /\ ret.out.val = ProdR(alpha, beta, 2)

=============================================================================
